---- MODULE Spec2Model ----
(***************************************************************************)
(* A model of object-hash (src/index.js): the canonical serializer         *)
(* typeHasher, the unordered-collection canonicalizer inside _array, the   *)
(* PassThrough sink and the facade (applyDefaults, hash).                  *)
(*                                                                         *)
(* Text is a sequence of one-character strings, so that concatenation,     *)
(* length prefixes and Array.prototype.sort's code-unit order are computed *)
(* and not assumed.  Composite values live in a heap and are referred to   *)
(* by identity, as the Context Stack compares them.                        *)
(***************************************************************************)
EXTENDS Integers, Sequences, FiniteSets, TLC

(***************************************************************************)
(* Text                                                                    *)
(***************************************************************************)

\* The printable ASCII characters in code order: codes 32 (space) to 95, and
\* codes 97 ("a") to 126.
Chars32 ==
  << " ", "!", "\"", "#", "$", "%", "&", "'", "(", ")", "*", "+", ",", "-", ".", "/",
     "0", "1", "2", "3", "4", "5", "6", "7", "8", "9", ":", ";", "<", "=", ">", "?",
     "@", "A", "B", "C", "D", "E", "F", "G", "H", "I", "J", "K", "L", "M", "N", "O",
     "P", "Q", "R", "S", "T", "U", "V", "W", "X", "Y", "Z", "[", "\\", "]", "^", "_" >>

Chars97 ==
  << "a", "b", "c", "d", "e", "f", "g", "h", "i", "j", "k", "l", "m", "n", "o",
     "p", "q", "r", "s", "t", "u", "v", "w", "x", "y", "z", "{", "|", "}", "~" >>

\* The UTF-16 code unit of a character.
CharCode ==
  [c \in {Chars32[i] : i \in DOMAIN Chars32} \cup {Chars97[i] : i \in DOMAIN Chars97} |->
     IF \E i \in DOMAIN Chars32 : Chars32[i] = c
       THEN 31 + (CHOOSE i \in DOMAIN Chars32 : Chars32[i] = c)
       ELSE 96 + (CHOOSE i \in DOMAIN Chars97 : Chars97[i] = c)]

\* String.prototype.toLowerCase, one character ("A".."Z" are codes 65..90).
LowerChar(c) ==
  IF CharCode[c] >= 65 /\ CharCode[c] <= 90 THEN Chars97[CharCode[c] - 64] ELSE c

\* String.prototype.toLowerCase.
toLowerCase(s) == [i \in DOMAIN s |-> LowerChar(s[i])]

\* Number.prototype.toString for a non-negative integer: its decimal digits.
RECURSIVE toString(_)
toString(n) ==
  IF n < 10 THEN << Chars32[17 + n] >>
  ELSE toString(n \div 10) \o << Chars32[17 + (n % 10)] >>

\* The comparison Array.prototype.sort uses without a comparator: strings
\* compared code unit by code unit, a proper prefix being the smaller.
StrLess(a, b) ==
  LET differ == {i \in 1..(IF Len(a) < Len(b) THEN Len(a) ELSE Len(b)) : a[i] # b[i]} IN
    IF differ = {} THEN Len(a) < Len(b)
    ELSE LET first == CHOOSE i \in differ : \A j \in differ : i <= j
         IN CharCode[a[first]] < CharCode[b[first]]

\* Insert a string into a sorted sequence of strings.
RECURSIVE Insert(_, _)
Insert(x, sorted) ==
  IF sorted = << >> THEN << x >>
  ELSE IF StrLess(x, Head(sorted)) THEN << x >> \o sorted
  ELSE << Head(sorted) >> \o Insert(x, Tail(sorted))

\* Array.prototype.sort() on a sequence of strings.
\* A sort that leaves the list as it was given: the variant of sort that the
\* order-independence properties must tell from the real one.
sortAsInserted(seq) == seq

RECURSIVE sort(_)
sort(seq) ==
  IF seq = << >> THEN << >> ELSE Insert(Head(seq), sort(Tail(seq)))

(***************************************************************************)
(* The literals the serializer writes, as text                             *)
(***************************************************************************)

T_Null == << "N", "u", "l", "l" >>
T_Undefined == << "U", "n", "d", "e", "f", "i", "n", "e", "d" >>
T_bool == << "b", "o", "o", "l", ":" >>
T_true == << "t", "r", "u", "e" >>
T_false == << "f", "a", "l", "s", "e" >>
T_number == << "n", "u", "m", "b", "e", "r", ":" >>
T_string == << "s", "t", "r", "i", "n", "g", ":" >>
T_symbol == << "s", "y", "m", "b", "o", "l", ":" >>
T_fn == << "f", "n", ":" >>
T_native == << "[", "n", "a", "t", "i", "v", "e", "]" >>
T_CIRCULAR == << "[", "C", "I", "R", "C", "U", "L", "A", "R", ":" >>
T_open == << "[" >>
T_close == << "]" >>
T_buffer == << "b", "u", "f", "f", "e", "r", ":" >>
T_object == << "o", "b", "j", "e", "c", "t", ":" >>
T_array == << "a", "r", "r", "a", "y", ":" >>
T_map == << "m", "a", "p", ":" >>
T_set == << "s", "e", "t", ":" >>
T_arraybuffer == << "a", "r", "r", "a", "y", "b", "u", "f", "f", "e", "r", ":" >>
T_blob == << "[", "b", "l", "o", "b", "]" >>
T_colon == << ":" >>
T_comma == << "," >>
K_prototype == << "p", "r", "o", "t", "o", "t", "y", "p", "e" >>
K_proto == << "_", "_", "p", "r", "o", "t", "o", "_", "_" >>
K_constructor == << "c", "o", "n", "s", "t", "r", "u", "c", "t", "o", "r" >>
N_object == << "o", "b", "j", "e", "c", "t" >>
N_function == << "f", "u", "n", "c", "t", "i", "o", "n" >>
N_Array == << "A", "r", "r", "a", "y" >>
N_Uint8Array == << "U", "i", "n", "t", "8", "A", "r", "r", "a", "y" >>

\* The encoding rules of typeHasher that _object reaches by name, this['_' + objType]:
\* the lower-cased class name, what the rule does, and the literal it writes.
\*   "text"    writes the literal and the object's textual form
\*   "literal" writes the literal only
\*   "numeric" writes the literal and dispatches a copy of the elements as an Array
\* and the rules named after themselves are written out below.
Rules ==
  <<
    [name |-> << "a", "r", "r", "a", "y" >>,
     does |-> "array", lit |-> << >>],
    [name |-> << "d", "a", "t", "e" >>,
     does |-> "text", lit |-> << "d", "a", "t", "e", ":" >>],
    [name |-> << "s", "y", "m", "b", "o", "l" >>,
     does |-> "text", lit |-> << "s", "y", "m", "b", "o", "l", ":" >>],
    [name |-> << "e", "r", "r", "o", "r" >>,
     does |-> "text", lit |-> << "e", "r", "r", "o", "r", ":" >>],
    [name |-> << "b", "o", "o", "l", "e", "a", "n" >>,
     does |-> "text", lit |-> << "b", "o", "o", "l", ":" >>],
    [name |-> << "s", "t", "r", "i", "n", "g" >>,
     does |-> "string", lit |-> << "s", "t", "r", "i", "n", "g", ":" >>],
    [name |-> << "n", "u", "m", "b", "e", "r" >>,
     does |-> "text", lit |-> << "n", "u", "m", "b", "e", "r", ":" >>],
    [name |-> << "x", "m", "l" >>,
     does |-> "text", lit |-> << "x", "m", "l", ":" >>],
    [name |-> << "n", "u", "l", "l" >>,
     does |-> "literal", lit |-> << "N", "u", "l", "l" >>],
    [name |-> << "u", "n", "d", "e", "f", "i", "n", "e", "d" >>,
     does |-> "literal", lit |-> << "U", "n", "d", "e", "f", "i", "n", "e", "d" >>],
    [name |-> << "r", "e", "g", "e", "x", "p" >>,
     does |-> "text", lit |-> << "r", "e", "g", "e", "x", ":" >>],
    [name |-> << "u", "i", "n", "t", "8", "a", "r", "r", "a", "y" >>,
     does |-> "numeric", lit |-> << "u", "i", "n", "t", "8", "a", "r", "r", "a", "y", ":" >>],
    [name |-> << "u", "i", "n", "t", "8", "c", "l", "a", "m", "p", "e", "d", "a", "r", "r", "a", "y" >>,
     does |-> "numeric", lit |-> << "u", "i", "n", "t", "8", "c", "l", "a", "m", "p", "e", "d", "a", "r", "r", "a", "y", ":" >>],
    [name |-> << "i", "n", "t", "8", "a", "r", "r", "a", "y" >>,
     does |-> "numeric", lit |-> << "u", "i", "n", "t", "8", "a", "r", "r", "a", "y", ":" >>],
    [name |-> << "u", "i", "n", "t", "1", "6", "a", "r", "r", "a", "y" >>,
     does |-> "numeric", lit |-> << "u", "i", "n", "t", "1", "6", "a", "r", "r", "a", "y", ":" >>],
    [name |-> << "i", "n", "t", "1", "6", "a", "r", "r", "a", "y" >>,
     does |-> "numeric", lit |-> << "u", "i", "n", "t", "1", "6", "a", "r", "r", "a", "y", ":" >>],
    [name |-> << "u", "i", "n", "t", "3", "2", "a", "r", "r", "a", "y" >>,
     does |-> "numeric", lit |-> << "u", "i", "n", "t", "3", "2", "a", "r", "r", "a", "y", ":" >>],
    [name |-> << "i", "n", "t", "3", "2", "a", "r", "r", "a", "y" >>,
     does |-> "numeric", lit |-> << "u", "i", "n", "t", "3", "2", "a", "r", "r", "a", "y", ":" >>],
    [name |-> << "f", "l", "o", "a", "t", "3", "2", "a", "r", "r", "a", "y" >>,
     does |-> "numeric", lit |-> << "f", "l", "o", "a", "t", "3", "2", "a", "r", "r", "a", "y", ":" >>],
    [name |-> << "f", "l", "o", "a", "t", "6", "4", "a", "r", "r", "a", "y" >>,
     does |-> "numeric", lit |-> << "f", "l", "o", "a", "t", "6", "4", "a", "r", "r", "a", "y", ":" >>],
    [name |-> << "a", "r", "r", "a", "y", "b", "u", "f", "f", "e", "r" >>,
     does |-> "arraybuffer", lit |-> << "a", "r", "r", "a", "y", "b", "u", "f", "f", "e", "r", ":" >>],
    [name |-> << "u", "r", "l" >>,
     does |-> "text", lit |-> << "u", "r", "l", ":" >>],
    [name |-> << "m", "a", "p" >>,
     does |-> "map", lit |-> << "m", "a", "p", ":" >>],
    [name |-> << "s", "e", "t" >>,
     does |-> "set", lit |-> << "s", "e", "t", ":" >>],
    [name |-> << "b", "l", "o", "b" >>,
     does |-> "blob", lit |-> << "[", "b", "l", "o", "b", "]" >>],
    [name |-> << "d", "o", "m", "w", "i", "n", "d", "o", "w" >>,
     does |-> "literal", lit |-> << "d", "o", "m", "w", "i", "n", "d", "o", "w" >>],
    [name |-> << "p", "r", "o", "c", "e", "s", "s" >>,
     does |-> "literal", lit |-> << "p", "r", "o", "c", "e", "s", "s" >>],
    [name |-> << "t", "i", "m", "e", "r" >>,
     does |-> "literal", lit |-> << "t", "i", "m", "e", "r" >>],
    [name |-> << "p", "i", "p", "e" >>,
     does |-> "literal", lit |-> << "p", "i", "p", "e" >>],
    [name |-> << "t", "c", "p" >>,
     does |-> "literal", lit |-> << "t", "c", "p" >>],
    [name |-> << "u", "d", "p" >>,
     does |-> "literal", lit |-> << "u", "d", "p" >>],
    [name |-> << "t", "t", "y" >>,
     does |-> "literal", lit |-> << "t", "t", "y" >>],
    [name |-> << "s", "t", "a", "t", "w", "a", "t", "c", "h", "e", "r" >>,
     does |-> "literal", lit |-> << "s", "t", "a", "t", "w", "a", "t", "c", "h", "e", "r" >>],
    [name |-> << "s", "e", "c", "u", "r", "e", "c", "o", "n", "t", "e", "x", "t" >>,
     does |-> "literal", lit |-> << "s", "e", "c", "u", "r", "e", "c", "o", "n", "t", "e", "x", "t" >>],
    [name |-> << "c", "o", "n", "n", "e", "c", "t", "i", "o", "n" >>,
     does |-> "literal", lit |-> << "c", "o", "n", "n", "e", "c", "t", "i", "o", "n" >>],
    [name |-> << "z", "l", "i", "b" >>,
     does |-> "literal", lit |-> << "z", "l", "i", "b" >>],
    [name |-> << "c", "o", "n", "t", "e", "x", "t" >>,
     does |-> "literal", lit |-> << "c", "o", "n", "t", "e", "x", "t" >>],
    [name |-> << "n", "o", "d", "e", "s", "c", "r", "i", "p", "t" >>,
     does |-> "literal", lit |-> << "n", "o", "d", "e", "s", "c", "r", "i", "p", "t" >>],
    [name |-> << "h", "t", "t", "p", "p", "a", "r", "s", "e", "r" >>,
     does |-> "literal", lit |-> << "h", "t", "t", "p", "p", "a", "r", "s", "e", "r" >>],
    [name |-> << "d", "a", "t", "a", "v", "i", "e", "w" >>,
     does |-> "literal", lit |-> << "d", "a", "t", "a", "v", "i", "e", "w" >>],
    [name |-> << "s", "i", "g", "n", "a", "l" >>,
     does |-> "literal", lit |-> << "s", "i", "g", "n", "a", "l" >>],
    [name |-> << "f", "s", "e", "v", "e", "n", "t" >>,
     does |-> "literal", lit |-> << "f", "s", "e", "v", "e", "n", "t" >>],
    [name |-> << "t", "l", "s", "w", "r", "a", "p" >>,
     does |-> "literal", lit |-> << "t", "l", "s", "w", "r", "a", "p" >>] >>

(***************************************************************************)
(* Values and the heap                                                     *)
(*                                                                         *)
(* A value is a record [t, n, s, e]: t is its kind, n a number (the value  *)
(* of a number, 1/0 of a boolean, the identity of a heap object), s a text *)
(* (of a string, the description of a symbol, the class name of a          *)
(* temporary), e the elements of a temporary.  A temporary is an object    *)
(* the serializer allocates itself (Array.prototype.slice.call(arr),       *)
(* Array.from(map)'s pairs, new Uint8Array(buf)): no input refers to it.   *)
(***************************************************************************)

Null == [t |-> "null", n |-> 0, s |-> << >>, e |-> << >>]
Undefined == [t |-> "undefined", n |-> 0, s |-> << >>, e |-> << >>]
Bool(b) == [t |-> "boolean", n |-> IF b THEN 1 ELSE 0, s |-> << >>, e |-> << >>]
Num(k) == [t |-> "number", n |-> k, s |-> << >>, e |-> << >>]
Str(text) == [t |-> "string", n |-> 0, s |-> text, e |-> << >>]
Sym(text) == [t |-> "symbol", n |-> 0, s |-> text, e |-> << >>]
Ref(i) == [t |-> "ref", n |-> i, s |-> << >>, e |-> << >>]
Temp(cls, elems) == [t |-> "temp", n |-> 0, s |-> cls, e |-> elems]

\* A heap object: cls is the class name Object.prototype.toString reports,
\* callable whether typeof is 'function', native what isNativeFunction
\* answers, isBuffer what Buffer.isBuffer answers, text the object's textual
\* form (toString(), toJSON(), a function's source, a buffer's bytes), props
\* the own enumerable properties in insertion order, items the elements of
\* an array, set or numeric array, entries the (key, value) pairs of a map,
\* and prototype, proto, constructor what reading object.prototype,
\* object.__proto__ and object.constructor yields when no own property of
\* that name exists.
Object(cls, props, items) ==
  [cls |-> cls, callable |-> FALSE, native |-> FALSE, isBuffer |-> FALSE,
   text |-> << >>, props |-> props, items |-> items, entries |-> << >>,
   prototype |-> Undefined, proto |-> Undefined, constructor |-> Undefined]

\* The object a value denotes: a heap object, or the temporary itself.
Deref(heap, v) ==
  IF v.t = "ref" THEN heap[v.n]
  ELSE Object(v.s, << >>, v.e)

\* typeof value, with 'null' for null (lines 168-171).
typeof(heap, v) ==
  CASE v.t = "ref" -> IF heap[v.n].callable THEN "function" ELSE "object"
    [] v.t = "temp" -> "object"
    [] OTHER -> v.t

\* Object.keys(object): the own enumerable property names, in insertion order.
keysOf(o) == [i \in DOMAIN o.props |-> o.props[i].k]

\* object[key] for the keys the record rule visits: an own property wins,
\* the three special names fall back to what the prototype chain yields.
Get(o, key) ==
  IF \E i \in DOMAIN o.props : o.props[i].k = key
    THEN o.props[CHOOSE i \in DOMAIN o.props : o.props[i].k = key].v
  ELSE IF key = K_prototype THEN o.prototype
  ELSE IF key = K_proto THEN o.proto
  ELSE IF key = K_constructor THEN o.constructor
  ELSE Undefined

\* isNativeFunction (lines 101-107): false for what is not a function,
\* else the test of the function's source text.
isNativeFunction(o) == o.callable /\ o.native

(***************************************************************************)
(* PassThrough and the hasher instance                                     *)
(***************************************************************************)

\* A typeHasher instance (lines 159-160) with its sink.  context is the
\* closure variable `context`; passed is the array the caller handed in (the
\* caller's localContext), which context.push mutates for as long as the
\* closure variable still refers to it (shared).  buf is the sink's content
\* (PassThrough.buf, lines 399-412), err the exception in flight.
\* calls and visited are history variables, not program state: every
\* dispatch call with the text it wrote, and every composite pushed onto a
\* context array, in order.
typeHasher(context, calls, visited) ==
  [context |-> context, passed |-> context, shared |-> TRUE,
   buf |-> << >>, err |-> "none", calls |-> calls, visited |-> visited]

\* writeTo.write(b): PassThrough appends (line 404).
write(h, b) == [h EXCEPT !.buf = @ \o b]

\* throw new Error(...).
throw(h, e) == [h EXCEPT !.err = e]

\* A search that finds nothing: with it no composite is ever taken as met
\* before.
indexOfNothing(context, v) == -1

\* context.indexOf(object), zero-based, -1 when absent: the first position
\* holding the same identity.  A temporary is a fresh object, never present.
indexOf(context, v) ==
  IF v.t = "ref" /\ \E i \in DOMAIN context : context[i] = v.n
    THEN (CHOOSE i \in DOMAIN context :
            context[i] = v.n /\ \A j \in 1..(i - 1) : context[j] # v.n) - 1
    ELSE -1

\* context.push(object) (line 192).  A temporary occupies a slot as 0.
push(h, v) ==
  [h EXCEPT !.context = Append(@, v.n),
            !.passed = IF h.shared THEN Append(@, v.n) ELSE @,
            !.visited = Append(@, v.n)]

\* The rule this['_' + objType], if there is one.
hasRule(objType) == \E i \in DOMAIN Rules : Rules[i].name = objType
ruleOf(objType) == Rules[CHOOSE i \in DOMAIN Rules : Rules[i].name = objType]

\* options.replacer applied to a value (line 165).  "dropFunctions" stands
\* for a caller's function that replaces every function by undefined.
replacer(heap, options, value) ==
  IF options.replacer = "dropFunctions" /\ value.t = "ref" /\ heap[value.n].callable
    THEN Undefined ELSE value

(***************************************************************************)
(* typeHasher (lines 159-393)                                              *)
(*                                                                         *)
(* E is the environment of one call: [heap, options].  Every operator      *)
(* takes the hasher h and yields the hasher after the call; once err is    *)
(* set the exception propagates and nothing more is written.               *)
(***************************************************************************)

RECURSIVE dispatch(_, _, _)
RECURSIVE _object(_, _, _)
RECURSIVE _array(_, _, _, _)
RECURSIVE _function(_, _, _)
RECURSIVE forEachKey(_, _, _, _)
RECURSIVE forEach(_, _, _)
RECURSIVE mapEntries(_, _, _, _)
RECURSIVE applyRule(_, _, _, _)

\* _string (lines 280-283).
_string(h, text) == write(write(h, T_string \o toString(Len(text)) \o T_colon), text)

\* _number (lines 296-298).
_number(h, k) == write(h, T_number \o toString(k))

\* _boolean (lines 277-279).
_boolean(h, b) == write(h, T_bool \o (IF b = 1 THEN T_true ELSE T_false))

\* _symbol (lines 271-273); s is the symbol's textual form.
_symbol(h, text) == write(h, T_symbol \o text)

\* _null and _undefined (lines 302-307).
_null(h) == write(h, T_Null)
_undefined(h) == write(h, T_Undefined)

\* The hasher a call returns, with the call recorded.
returned(h, value, r) ==
  [r EXCEPT !.calls =
     Append(@, [v |-> value, wrote |-> SubSeq(r.buf, Len(h.buf) + 1, Len(r.buf))])]

\* Sequencing of two statements: the second runs on the hasher the first
\* leaves, unless the first threw.
andThen(h, rest(_)) == IF h.err # "none" THEN h ELSE rest(h)

\* dispatch (lines 163-174).
dispatch(E, h, value) ==
  IF h.err # "none" THEN h
  ELSE
    LET v == IF E.options.replacer # "undefined"
               THEN replacer(E.heap, E.options, value) ELSE value
        type == typeof(E.heap, v)
    IN returned(h, value,
         CASE type = "object" -> _object(E, h, v)
           [] type = "function" -> _function(E, h, v)
           [] type = "string" -> _string(h, v.s)
           [] type = "number" -> _number(h, v.n)
           [] type = "boolean" -> _boolean(h, v.n)
           [] type = "symbol" -> _symbol(h, v.s)
           [] type = "null" -> _null(h)
           [] type = "undefined" -> _undefined(h))

\* The key/value loop of the record rule (lines 223-230).
\* The key loop with the excludeValues test removed: every value is dispatched.
forEachKeyWithValues(E, h, o, keys) ==
  IF keys = << >> THEN h
  ELSE
    andThen(dispatch(E, h, Str(Head(keys))), LAMBDA h1 :
      andThen(dispatch(E, write(h1, T_colon), Get(o, Head(keys))), LAMBDA h2 :
        forEachKey(E, write(h2, T_comma), o, Tail(keys))))

forEachKey(E, h, o, keys) ==
  IF keys = << >> THEN h
  ELSE
    andThen(dispatch(E, h, Str(Head(keys))), LAMBDA h1 :
      andThen(IF ~E.options.excludeValues
                THEN dispatch(E, write(h1, T_colon), Get(o, Head(keys)))
                ELSE write(h1, T_colon), LAMBDA h2 :
        forEachKey(E, write(h2, T_comma), o, Tail(keys))))

\* The record rule of _object (lines 209-230).
\* The record rule without the three sentinel keys, whatever respectType is.
recordUntyped(E, h, o) ==
  LET keys == sort(keysOf(o))
  IN forEachKey(E, write(h, T_object \o toString(Len(keys)) \o T_colon), o, keys)

record(E, h, o) ==
  LET sorted == sort(keysOf(o))
      keys == IF E.options.respectType /\ ~isNativeFunction(o)
                THEN << K_prototype, K_proto, K_constructor >> \o sorted
                ELSE sorted
  IN forEachKey(E, write(h, T_object \o toString(Len(keys)) \o T_colon), o, keys)

\* _object after the Context Stack check (lines 195-231).
entered(E, h, o, objType) ==
  IF o.isBuffer THEN write(write(h, T_buffer), o.text)
  ELSE IF objType # N_object /\ objType # N_function THEN
    IF hasRule(objType) THEN applyRule(E, h, objType, o)
    ELSE IF E.options.ignoreUnknown THEN write(h, T_open \o objType \o T_close)
    ELSE throw(h, "Unknown object type")
  ELSE record(E, h, o)

\* _object (lines 175-232).
_object(E, h, object) ==
  LET o == Deref(E.heap, object)
      objType == toLowerCase(o.cls)
      objectNumber == indexOf(h.context, object)
  IN
    IF objectNumber >= 0
      THEN dispatch(E, h, Str(T_CIRCULAR \o toString(objectNumber) \o T_close))
      ELSE entered(E, push(h, object), o, objType)

\* The rules _object calls by name (lines 233-391, except _function and the
\* rules of the primitive kinds, which dispatch calls).
applyRule(E, h, objType, o) ==
  LET rule == ruleOf(objType) IN
    CASE rule.does = "array" -> _array(E, h, o.items, E.options.unorderedArrays)
      [] rule.does = "text" -> write(h, rule.lit \o o.text)
      [] rule.does = "string" -> _string(h, o.text)
      [] rule.does = "literal" -> write(h, rule.lit)
      [] rule.does = "numeric" -> dispatch(E, write(h, rule.lit), Temp(N_Array, o.items))
      [] rule.does = "arraybuffer" ->
           dispatch(E, write(h, rule.lit), Temp(N_Uint8Array, o.items))
      [] rule.does = "map" ->
           _array(E, write(h, rule.lit),
                  [i \in DOMAIN o.entries |->
                     Temp(N_Array, << o.entries[i].k, o.entries[i].v >>)],
                  E.options.unorderedSets)
      [] rule.does = "set" ->
           _array(E, write(h, rule.lit), o.items, E.options.unorderedSets)
      [] rule.does = "blob" ->
           IF E.options.ignoreUnknown THEN write(h, rule.lit)
           ELSE throw(h, "Hashing Blob objects is currently not supported")

\* arr.forEach(dispatch) (lines 240-242).
forEach(E, h, arr) ==
  IF arr = << >> THEN h
  ELSE andThen(dispatch(E, h, Head(arr)), LAMBDA h1 : forEach(E, h1, Tail(arr)))

\* One callback of arr.map in the unordered branch (lines 256-262), given
\* the hasher the entry was dispatched on: acc with the entry's additions to
\* localContext, its text, and the exception it may have thrown.
mapped(h, acc, hasher) ==
  [contextAdditions |->
     acc.contextAdditions \o SubSeq(hasher.passed, Len(h.context) + 1, Len(hasher.passed)),
   entries |-> Append(acc.entries, hasher.buf),
   h |-> [acc.h EXCEPT !.err = hasher.err,
                       !.calls = hasher.calls,
                       !.visited = hasher.visited]]

\* arr.map(...) of the unordered branch (lines 254-263).  acc carries
\* contextAdditions, the entries serialized so far, and the enclosing
\* hasher (for the exception in flight and the history variables).
mapEntries(E, h, arr, acc) ==
  IF arr = << >> \/ acc.h.err # "none" THEN acc
  ELSE mapEntries(E, h, Tail(arr),
         mapped(h, acc,
                dispatch(E, typeHasher(h.context, acc.h.calls, acc.h.visited), Head(arr))))

\* The sorted entries as the array of strings _array is called with again.
strings(texts) == [i \in DOMAIN texts |-> Str(texts[i])]

\* The end of the unordered branch (lines 264-266), m being what arr.map left.
merged(E, h, m) ==
  IF m.h.err # "none" THEN m.h
  ELSE _array(E, [m.h EXCEPT !.context = h.context \o m.contextAdditions,
                             !.shared = FALSE],
              strings(sort(m.entries)), FALSE)

\* _array (lines 233-267).
unorderedBranch(E, h, arr) ==
  merged(E, h, mapEntries(E, h, arr,
                          [contextAdditions |-> << >>, entries |-> << >>, h |-> h]))

_array(E, h, arr, unordered) ==
  IF ~unordered \/ Len(arr) <= 1
    THEN forEach(E, write(h, T_array \o toString(Len(arr)) \o T_colon), arr)
    ELSE unorderedBranch(E, write(h, T_array \o toString(Len(arr)) \o T_colon), arr)

\* _function (lines 284-295).
_function(E, h, fn) ==
  andThen(IF isNativeFunction(Deref(E.heap, fn))
            THEN dispatch(E, write(h, T_fn), Str(T_native))
            ELSE dispatch(E, write(h, T_fn), Str(Deref(E.heap, fn).text)), LAMBDA h1 :
    IF E.options.respectFunctionProperties THEN _object(E, h1, fn) ELSE h1)

(***************************************************************************)
(* The facade (lines 29-33, 56-98, 109-138)                                *)
(***************************************************************************)

\* applyDefaults (lines 56-98) on the options the caller passed, each field
\* being "undefined", "true" or "false" (replacer: "undefined" or the name
\* of a function; algorithm: "undefined" or a name).  The encoding check is
\* left out: the result below is the text handed to the sink.
applyDefaults(raw) ==
  [algorithm |-> IF raw.algorithm = "undefined" THEN "sha1" ELSE raw.algorithm,
   excludeValues |-> raw.excludeValues = "true",
   ignoreUnknown |-> raw.ignoreUnknown = "true",
   respectType |-> raw.respectType # "false",
   respectFunctionProperties |-> raw.respectFunctionProperties # "false",
   unorderedArrays |-> raw.unorderedArrays = "true",
   unorderedSets |-> raw.unorderedSets # "false",
   replacer |-> raw.replacer]

\* crypto.getHashes() with 'passthrough' pushed (lines 57, 77), as far as
\* the model distinguishes digest algorithms.
hashes == {"sha1", "md5", "passthrough"}

\* objectHash (lines 29-33) with hash (lines 109-138): the result of one
\* call.  out is everything written to hashingStream; with 'passthrough' it
\* is the value returned, otherwise the digest returned is the digest of out
\* under the algorithm.  context is the hasher's Context Stack at the end.
objectHash(heap, object, raw) ==
  LET options == applyDefaults(raw) IN
    IF object.t = "undefined" THEN
      [done |-> TRUE, err |-> "Object argument required.", algorithm |-> options.algorithm,
       out |-> << >>, context |-> << >>, calls |-> << >>, visited |-> << >>]
    ELSE IF options.algorithm \notin hashes THEN
      [done |-> TRUE, err |-> "Algorithm not supported.", algorithm |-> options.algorithm,
       out |-> << >>, context |-> << >>, calls |-> << >>, visited |-> << >>]
    ELSE
      LET hasher == dispatch([heap |-> heap, options |-> options],
                             typeHasher(<< >>, << >>, << >>), object)
      IN [done |-> TRUE, err |-> hasher.err, algorithm |-> options.algorithm,
          out |-> IF hasher.err = "none" THEN hasher.buf ELSE << >>,
          context |-> hasher.context, calls |-> hasher.calls, visited |-> hasher.visited]

\* No call made yet.
NoResult ==
  [done |-> FALSE, err |-> "none", algorithm |-> "undefined",
   out |-> << >>, context |-> << >>, calls |-> << >>, visited |-> << >>]

(***************************************************************************)
(* The state: two values to hash, each in its own heap, the options the    *)
(* caller passes to both calls, and the result of each call.               *)
(***************************************************************************)

VARIABLES heapA, valA, heapB, valB, options, resA, resB, stack, hashers

vars == << heapA, valA, heapB, valB, options, resA, resB, stack, hashers >>

\* objectHash(valA, options), then objectHash(valB, options): two calls of
\* the exported function (lines 29-33), each with a Context Stack of its own.
HashA ==
  /\ ~resA.done
  /\ resA' = objectHash(heapA, valA, options)
  /\ UNCHANGED << heapA, valA, heapB, valB, options, resB, stack, hashers >>

HashB ==
  /\ resA.done /\ ~resB.done
  /\ resB' = objectHash(heapB, valB, options)
  /\ UNCHANGED << heapA, valA, heapB, valB, options, resA, stack, hashers >>

Next == HashA \/ HashB

(***************************************************************************)
(* Inputs                                                                  *)
(***************************************************************************)

\* Class names of the objects the inputs are built from.
C_Object == << "O", "b", "j", "e", "c", "t" >>
C_Function == << "F", "u", "n", "c", "t", "i", "o", "n" >>
C_Set == << "S", "e", "t" >>
C_Map == << "M", "a", "p" >>
C_WeakMap == << "W", "e", "a", "k", "M", "a", "p" >>

\* The class names of the nine fixed-width numeric arrays.
NumericClasses ==
  { << "I", "n", "t", "8", "A", "r", "r", "a", "y" >>,
    << "U", "i", "n", "t", "8", "A", "r", "r", "a", "y" >>,
    << "U", "i", "n", "t", "8", "C", "l", "a", "m", "p", "e", "d", "A", "r", "r", "a", "y" >>,
    << "I", "n", "t", "1", "6", "A", "r", "r", "a", "y" >>,
    << "U", "i", "n", "t", "1", "6", "A", "r", "r", "a", "y" >>,
    << "I", "n", "t", "3", "2", "A", "r", "r", "a", "y" >>,
    << "U", "i", "n", "t", "3", "2", "A", "r", "r", "a", "y" >>,
    << "F", "l", "o", "a", "t", "3", "2", "A", "r", "r", "a", "y" >>,
    << "F", "l", "o", "a", "t", "6", "4", "A", "r", "r", "a", "y" >> }

\* Property names, and the text '[CIRCULAR:0]'.
Ka == << "a" >>
Kb == << "b" >>
Kc == << "c" >>
CircularText == << "[", "C", "I", "R", "C", "U", "L", "A", "R", ":", "0", "]" >>

\* {a: x, b: y} with the properties inserted in this order; [x, y];
\* new Set([x, y]); new Map([[k, v]]); new Int8Array([x, y]); new WeakMap().
Prop(k, v) == [k |-> k, v |-> v]
Record(props) == Object(C_Object, props, << >>)
Array(items) == Object(N_Array, << >>, items)
SetOf(items) == Object(C_Set, << >>, items)
MapOf(entries) == [Object(C_Map, << >>, << >>) EXCEPT !.entries = entries]
NumericArray(cls, items) == Object(cls, << >>, items)
WeakMap == Object(C_WeakMap, << >>, << >>)

\* The options a caller passes: the algorithm is 'passthrough', so that the
\* result is the canonical text itself.
Options(excludeValues, ignoreUnknown, respectType, unorderedArrays, unorderedSets, rep) ==
  [algorithm |-> "passthrough", excludeValues |-> excludeValues,
   ignoreUnknown |-> ignoreUnknown, respectType |-> respectType,
   respectFunctionProperties |-> "undefined", unorderedArrays |-> unorderedArrays,
   unorderedSets |-> unorderedSets, replacer |-> rep]

\* The identities of the objects a value refers to directly.
RefsOf(values) == {values[i].n : i \in {j \in DOMAIN values : values[j].t = "ref"}}
Children(o) ==
  RefsOf(o.items) \cup RefsOf([i \in DOMAIN o.props |-> o.props[i].v])
    \cup RefsOf([i \in DOMAIN o.entries |-> o.entries[i].k])
    \cup RefsOf([i \in DOMAIN o.entries |-> o.entries[i].v])
    \cup RefsOf(<< o.prototype, o.proto, o.constructor >>)

\* The objects reachable from a set of objects in at least one step.
RECURSIVE ReachIn(_, _, _)
ReachIn(heap, from, steps) ==
  LET next == UNION {Children(heap[i]) : i \in from} IN
    IF steps = 0 THEN {} ELSE next \cup ReachIn(heap, next, steps - 1)
Reach(heap, from) == ReachIn(heap, from, Len(heap))

\* No object reachable from the value lies on a reference cycle.
Acyclic(heap, v) ==
  \A i \in RefsOf(<< v >>) \cup Reach(heap, RefsOf(<< v >>)) : i \notin Reach(heap, {i})

(***************************************************************************)
(* SpecUnordered: the unordered canonicalizer.  Object 1 is the root, a    *)
(* record or an array whose first element is the collection 2; 2 is an     *)
(* array or a set of two elements; 3 and 4 are small composites.  heapB is *)
(* heapA, or heapA with the two elements of one array or set swapped.      *)
(***************************************************************************)

UnorderedElems == {Num(1), Ref(1), Ref(2), Ref(3), Ref(4)}

UnorderedHeaps ==
  { << root, coll, x, y >> :
      root \in {Record(<< Prop(Ka, Ref(2)), Prop(Kb, e) >>) : e \in {Num(1), Ref(3), Ref(4)}}
               \cup {Array(<< Ref(2), e >>) : e \in {Num(1), Ref(3), Ref(4)}},
      coll \in {Array(<< e1, e2 >>) : e1 \in UnorderedElems, e2 \in UnorderedElems}
               \cup {SetOf(<< e1, e2 >>) : e1 \in UnorderedElems \ {Num(1)}, e2 \in {Num(1), Ref(4)}},
      x \in {Record(<< >>), Array(<< Ref(4), Num(1) >>), Array(<< Num(1) >>)},
      y \in {Record(<< Prop(Ka, Num(1)) >>), Array(<< >>)} }

Swapped(heap) ==
  { [heap EXCEPT ![i].items = << heap[i].items[2], heap[i].items[1] >>] :
      i \in {j \in DOMAIN heap : Len(heap[j].items) = 2 /\ heap[j].cls \in {N_Array, C_Set}} }

InitUnordered ==
  /\ heapA \in UnorderedHeaps
  /\ heapB \in {heapA} \cup Swapped(heapA)
  /\ valA = Ref(1)
  /\ valB = Ref(1)
  /\ options \in {Options("undefined", "undefined", "false", "true", "undefined", "undefined"),
                  Options("undefined", "undefined", "false", "undefined", "undefined", "undefined"),
                  Options("undefined", "undefined", "false", "false", "false", "undefined")}
  /\ resA = NoResult
  /\ resB = NoResult
  /\ stack = << >>
  /\ hashers = << >>

SpecUnordered == InitUnordered /\ [][Next]_vars

(***************************************************************************)
(* SpecValues: two values in one heap.  Objects 1 and 2 are the two roots  *)
(* (an array of two elements, a record of one property, or a numeric       *)
(* array), 3 and 4 what they may refer to.  A root may refer to itself.    *)
(***************************************************************************)

ValueRoots(self) ==
  {Array(<< e1, e2 >>) : e1 \in {Num(1), Ref(3), Ref(4), Ref(self)},
                         e2 \in {Num(1), Ref(3), Ref(4), Ref(self)}}
    \cup {Record(<< Prop(Ka, e) >>) : e \in {Num(1), Str(CircularText), Ref(3), Ref(self)}}
    \cup {NumericArray(cls, << Num(1), Num(2) >>) : cls \in NumericClasses}

ValueHeaps ==
  { << rootA, rootB, x, y >> :
      rootA \in ValueRoots(1), rootB \in ValueRoots(2),
      x \in {Record(<< >>), WeakMap, Array(<< Num(1) >>)},
      y \in {Record(<< >>), WeakMap} }

InitValues ==
  /\ heapA \in ValueHeaps
  /\ heapB = heapA
  /\ valA = Ref(1)
  /\ valB = Ref(2)
  /\ options \in {Options("undefined", ig, "false", "undefined", "undefined", "undefined") :
                    ig \in {"true", "undefined"}}
  /\ resA = NoResult
  /\ resB = NoResult
  /\ stack = << >>
  /\ hashers = << >>

SpecValues == InitValues /\ [][Next]_vars

(***************************************************************************)
(* SpecRecords: two records in one heap, under every configuration.        *)
(* Objects 1 and 2 are the two records, 3 what their properties may refer  *)
(* to, 4 to 7 Object.prototype, Object, Function.prototype and Function,   *)
(* 8 to 11 the prototype objects and the functions of two constructors     *)
(* Foo and Bar.                                                            *)
(***************************************************************************)

\* Source texts of the two constructors.
SrcFoo == << "f", "u", "n", "c", "t", "i", "o", "n", " ", "F", "(", ")", "{", "}" >>
SrcBar == << "f", "u", "n", "c", "t", "i", "o", "n", " ", "B", "(", ")", "{", "}" >>

\* An object literal, or an object made by `new` of the constructor whose
\* prototype object is proto and whose function is ctor: what reading
\* .prototype, .__proto__ and .constructor of it yields.
Instance(props, proto, ctor) ==
  [Record(props) EXCEPT !.proto = Ref(proto), !.constructor = Ref(ctor)]

\* A function: a native one of the host, or one with a source text.
NativeFunction ==
  [Object(C_Function, << >>, << >>) EXCEPT !.callable = TRUE, !.native = TRUE]
Function(src, prototype) ==
  [Object(C_Function, << >>, << >>) EXCEPT
     !.callable = TRUE, !.text = src, !.prototype = Ref(prototype),
     !.proto = Ref(6), !.constructor = Ref(7)]

\* The largest number a property holds.
MaxNumber == 2

\* What a property of the two records may hold.
PropertyValues == {Num(k) : k \in 1..MaxNumber} \cup {Ref(3)}

\* The own properties of the first record.
PropertyLists ==
  {<< >>} \cup {<< Prop(Ka, v) >> : v \in PropertyValues}
    \cup {<< Prop(Ka, v), Prop(Kb, w) >> : v \in PropertyValues, w \in {Num(1), Ref(3)}}

\* The own properties of the second record: those of the first, in the same
\* or in reverse insertion order, or with the value of the first replaced.
Variants(props) ==
  {props, [i \in DOMAIN props |-> props[Len(props) + 1 - i]]}
    \cup {[props EXCEPT ![1].v = v] : v \in IF props = << >> THEN {} ELSE PropertyValues}

RecordHeaps ==
  { << Instance(propsA, ctors[1], ctors[1] + 1),
       Instance(propsB, ctors[2], ctors[2] + 1),
       x,
       [Record(<< >>) EXCEPT !.proto = Null, !.constructor = Ref(5)],
       [NativeFunction EXCEPT !.prototype = Ref(4), !.proto = Ref(6), !.constructor = Ref(7)],
       [NativeFunction EXCEPT !.proto = Ref(4), !.constructor = Ref(7)],
       [NativeFunction EXCEPT !.prototype = Ref(6), !.proto = Ref(6), !.constructor = Ref(7)],
       Instance(<< >>, 4, 9),
       Function(SrcFoo, 8),
       Instance(<< >>, 4, 11),
       Function(srcBar, 10) >> :
      propsA \in PropertyLists,
      propsB \in UNION {Variants(props) : props \in PropertyLists},
      ctors \in {<< 4, 4 >>, << 8, 10 >>},
      srcBar \in {SrcFoo, SrcBar},
      x \in {WeakMap, Array(<< Num(1), Num(2) >>)} }

\* Every configuration: each option left out, or set against its default.
Configurations ==
  { [algorithm |-> "passthrough", excludeValues |-> ex, ignoreUnknown |-> ig,
     respectType |-> rt, respectFunctionProperties |-> rf, unorderedArrays |-> ua,
     unorderedSets |-> us, replacer |-> rep] :
      ex \in {"undefined", "true"}, ig \in {"undefined", "true"},
      rt \in {"undefined", "false"}, rf \in {"undefined", "false"},
      ua \in {"undefined", "true"}, us \in {"undefined", "false"},
      rep \in {"undefined", "dropFunctions"} }

InitRecords ==
  /\ heapA \in RecordHeaps
  /\ heapA[2].props \in Variants(heapA[1].props)
  /\ heapA[11].text = SrcBar => heapA[2].constructor = Ref(11)
  /\ heapB = heapA
  /\ valA = Ref(1)
  /\ valB = Ref(2)
  /\ options \in Configurations
  /\ resA = NoResult
  /\ resB = NoResult
  /\ stack = << >>
  /\ hashers = << >>

SpecRecords == InitRecords /\ [][Next]_vars

(***************************************************************************)
(* SpecRun: one call of objectHash, call by call.  stack holds the calls   *)
(* that are pending, the innermost first, each with its depth in the call  *)
(* stack; hashers holds the hashers in use, the innermost first: the one   *)
(* of the call and, above it, one for each entry of an unordered           *)
(* collection being serialized.                                            *)
(***************************************************************************)

\* The deepest the call stack may grow.
MaxDepth == 28

\* A pending call: what is called (op), on what (v, arr, keys), for the map
\* of the unordered branch what it has gathered, and the depth d.
Frame(op, d) ==
  [op |-> op, v |-> Undefined, arr |-> << >>, keys |-> << >>,
   contextAdditions |-> << >>, entries |-> << >>, mapping |-> FALSE, d |-> d]
Call_dispatch(value, d) == [Frame("dispatch", d) EXCEPT !.v = value]
Call_object(object, d) == [Frame("_object", d) EXCEPT !.v = object]
Call_write(text, d) == [Frame("write", d) EXCEPT !.v = Str(text)]
Call_forEach(arr, d) == [Frame("forEach", d) EXCEPT !.arr = arr]
Call_keys(object, keys, d) == [Frame("keys", d) EXCEPT !.v = object, !.keys = keys]
Call_map(arr, d) == [Frame("map", d) EXCEPT !.arr = arr]

\* What one call does before it calls others or returns: the calls it makes
\* in its turn, the hasher it leaves, and the exception it throws.
Does(frames, h) == [frames |-> frames, h |-> h, err |-> "none"]
Throws(h, e) == [frames |-> << >>, h |-> h, err |-> e]

\* dispatch (lines 163-174), with _function (lines 284-295) and the rules of
\* the primitive types.
dispatchCall(E, h, value, d) ==
  LET v == IF E.options.replacer # "undefined"
             THEN replacer(E.heap, E.options, value) ELSE value
      type == typeof(E.heap, v)
  IN CASE type = "object" -> Does(<< Call_object(v, d + 1) >>, h)
       [] type = "function" ->
            Does(<< Call_dispatch(IF isNativeFunction(Deref(E.heap, v))
                                    THEN Str(T_native)
                                    ELSE Str(Deref(E.heap, v).text), d + 2) >>
                   \o IF E.options.respectFunctionProperties
                        THEN << Call_object(v, d + 2) >> ELSE << >>,
                 write(h, T_fn))
       [] type = "string" -> Does(<< >>, _string(h, v.s))
       [] type = "number" -> Does(<< >>, _number(h, v.n))
       [] type = "boolean" -> Does(<< >>, _boolean(h, v.n))
       [] type = "symbol" -> Does(<< >>, _symbol(h, v.s))
       [] type = "null" -> Does(<< >>, _null(h))
       [] type = "undefined" -> Does(<< >>, _undefined(h))

\* _array (lines 233-267) up to its first loop.
_arrayCall(h, arr, unordered, d) ==
  Does(IF ~unordered \/ Len(arr) <= 1
         THEN << Call_forEach(arr, d) >> ELSE << Call_map(arr, d) >>,
       write(h, T_array \o toString(Len(arr)) \o T_colon))

\* The rule of a recognized class (lines 233-391).
applyRuleCall(E, h, objType, o, d) ==
  LET rule == ruleOf(objType) IN
    CASE rule.does = "array" -> _arrayCall(h, o.items, E.options.unorderedArrays, d + 1)
      [] rule.does = "text" -> Does(<< >>, write(h, rule.lit \o o.text))
      [] rule.does = "string" -> Does(<< >>, _string(h, o.text))
      [] rule.does = "literal" -> Does(<< >>, write(h, rule.lit))
      [] rule.does = "numeric" ->
           Does(<< Call_dispatch(Temp(N_Array, o.items), d + 2) >>, write(h, rule.lit))
      [] rule.does = "arraybuffer" ->
           Does(<< Call_dispatch(Temp(N_Uint8Array, o.items), d + 2) >>, write(h, rule.lit))
      [] rule.does = "map" ->
           _arrayCall(write(h, rule.lit),
                      [i \in DOMAIN o.entries |->
                         Temp(N_Array, << o.entries[i].k, o.entries[i].v >>)],
                      E.options.unorderedSets, d + 2)
      [] rule.does = "set" ->
           _arrayCall(write(h, rule.lit), o.items, E.options.unorderedSets, d + 2)
      [] rule.does = "blob" ->
           IF E.options.ignoreUnknown THEN Does(<< >>, write(h, rule.lit))
           ELSE Throws(h, "Hashing Blob objects is currently not supported")

\* _object (lines 175-232) up to its loop over the keys.
_objectCall(E, h, object, d) ==
  LET o == Deref(E.heap, object)
      objType == toLowerCase(o.cls)
      objectNumber == indexOf(h.context, object)
      h1 == push(h, object)
      sorted == sort(keysOf(o))
      keys == IF E.options.respectType /\ ~isNativeFunction(o)
                THEN << K_prototype, K_proto, K_constructor >> \o sorted
                ELSE sorted
  IN IF objectNumber >= 0 THEN
       Does(<< Call_dispatch(Str(T_CIRCULAR \o toString(objectNumber) \o T_close), d + 1) >>, h)
     ELSE IF o.isBuffer THEN Does(<< >>, write(write(h1, T_buffer), o.text))
     ELSE IF objType # N_object /\ objType # N_function THEN
       IF hasRule(objType) THEN applyRuleCall(E, h1, objType, o, d)
       ELSE IF E.options.ignoreUnknown
         THEN Does(<< >>, write(h1, T_open \o objType \o T_close))
       ELSE Throws(h1, "Unknown object type")
     ELSE Does(<< Call_keys(object, keys, d) >>,
               write(h1, T_object \o toString(Len(keys)) \o T_colon))

\* One round of the loop over the keys of a record (lines 223-230).
keysCall(E, h, f) ==
  IF f.keys = << >> THEN Does(<< >>, h)
  ELSE Does(<< Call_dispatch(Str(Head(f.keys)), f.d + 2), Call_write(T_colon, f.d + 2) >>
              \o (IF ~E.options.excludeValues
                    THEN << Call_dispatch(Get(Deref(E.heap, f.v), Head(f.keys)), f.d + 2) >>
                    ELSE << >>)
              \o << Call_write(T_comma, f.d + 2), [f EXCEPT !.keys = Tail(@)] >>,
            h)

\* One round of arr.forEach (lines 240-242).
forEachCall(h, f) ==
  IF f.arr = << >> THEN Does(<< >>, h)
  ELSE Does(<< Call_dispatch(Head(f.arr), f.d + 2), [f EXCEPT !.arr = Tail(@)] >>, h)

\* The call in progress, the hasher it writes to, and the environment.
Top == Head(stack)
Hasher == Head(hashers)
Env == [heap |-> heapA, options |-> applyDefaults(options)]
Running == ~resA.done /\ stack # << >> /\ Top.d <= MaxDepth

\* The call in progress is replaced by the calls it makes; an exception ends
\* the run.
Proceed(r) ==
  IF r.err # "none" THEN
    /\ resA' = [NoResult EXCEPT !.done = TRUE, !.err = r.err,
                                !.algorithm = Env.options.algorithm]
    /\ stack' = << >>
    /\ hashers' = << >>
  ELSE
    /\ stack' = r.frames \o Tail(stack)
    /\ hashers' = << r.h >> \o Tail(hashers)
    /\ UNCHANGED resA

\* objectHash and hash (lines 29-33, 109-138): a hasher on a fresh stream,
\* and the top-level dispatch.
Call ==
  /\ ~resA.done
  /\ hashers = << >>
  /\ stack = << >>
  /\ Env.options.algorithm \in hashes
  /\ hashers' = << typeHasher(<< >>, << >>, << >>) >>
  /\ stack' = << Call_dispatch(valA, 1) >>
  /\ UNCHANGED << heapA, valA, heapB, valB, options, resA, resB >>

Dispatch ==
  /\ Running
  /\ Top.op = "dispatch"
  /\ Proceed(dispatchCall(Env, Hasher, Top.v, Top.d))
  /\ UNCHANGED << heapA, valA, heapB, valB, options, resB >>

EnterObject ==
  /\ Running
  /\ Top.op = "_object"
  /\ Proceed(_objectCall(Env, Hasher, Top.v, Top.d))
  /\ UNCHANGED << heapA, valA, heapB, valB, options, resB >>

NextKey ==
  /\ Running
  /\ Top.op = "keys"
  /\ Proceed(keysCall(Env, Hasher, Top))
  /\ UNCHANGED << heapA, valA, heapB, valB, options, resB >>

NextElement ==
  /\ Running
  /\ Top.op = "forEach"
  /\ Proceed(forEachCall(Hasher, Top))
  /\ UNCHANGED << heapA, valA, heapB, valB, options, resB >>

\* write(':') and write(',') of the loop over the keys (lines 225, 229).
Write ==
  /\ Running
  /\ Top.op = "write"
  /\ Proceed(Does(<< >>, write(Hasher, Top.v.s)))
  /\ UNCHANGED << heapA, valA, heapB, valB, options, resB >>

\* The callback of arr.map is entered for the next entry (lines 255-258): a
\* new stream, a copy of the context, a hasher on them, and the dispatch.
StartEntry ==
  /\ Running
  /\ Top.op = "map" /\ ~Top.mapping /\ Top.arr # << >>
  /\ hashers' = << typeHasher(Hasher.context, << >>, Hasher.visited) >> \o hashers
  /\ stack' = << Call_dispatch(Head(Top.arr), Top.d + 2), [Top EXCEPT !.mapping = TRUE] >>
                \o Tail(stack)
  /\ UNCHANGED << heapA, valA, heapB, valB, options, resA, resB >>

\* The callback returns (lines 259-262): what the entry's hasher added to
\* localContext is gathered, and the entry's text.
EndEntry ==
  /\ Running
  /\ Top.op = "map" /\ Top.mapping
  /\ hashers' = << [hashers[2] EXCEPT !.visited = Hasher.visited] >> \o Tail(Tail(hashers))
  /\ stack' = << [Top EXCEPT
                    !.arr = Tail(@),
                    !.contextAdditions =
                       @ \o SubSeq(Hasher.passed, Len(hashers[2].context) + 1, Len(Hasher.passed)),
                    !.entries = Append(@, Hasher.buf),
                    !.mapping = FALSE] >> \o Tail(stack)
  /\ UNCHANGED << heapA, valA, heapB, valB, options, resA, resB >>

\* The end of the unordered branch (lines 264-266): the additions are
\* joined to the context, and the sorted entries written as an array.
Merge ==
  /\ Running
  /\ Top.op = "map" /\ ~Top.mapping /\ Top.arr = << >>
  /\ Proceed(_arrayCall([Hasher EXCEPT !.context = @ \o Top.contextAdditions,
                                        !.shared = FALSE],
                        strings(sort(Top.entries)), FALSE, Top.d + 1))
  /\ UNCHANGED << heapA, valA, heapB, valB, options, resB >>

\* The top-level dispatch has returned: hash returns what was written
\* (lines 133-137).
Return ==
  /\ ~resA.done
  /\ stack = << >>
  /\ hashers # << >>
  /\ resA' = [NoResult EXCEPT !.done = TRUE, !.algorithm = Env.options.algorithm,
                              !.out = Hasher.buf, !.context = Hasher.context,
                              !.visited = Hasher.visited]
  /\ hashers' = << >>
  /\ UNCHANGED << heapA, valA, heapB, valB, options, resB, stack >>

NextRun ==
  \/ Call \/ Dispatch \/ EnterObject \/ NextKey \/ NextElement \/ Write
  \/ StartEntry \/ EndEntry \/ Merge \/ Return

\* Object 1 is the value hashed: a record or a map that refers to 2 and to
\* itself; 2 is an array or a set that refers to 3 and back to 1; 3 is a
\* function with a property that refers to 2, a map with 2 as a key, or a
\* WeakMap.
Shapes(x, y) ==
  { Record(<< Prop(Ka, x), Prop(Kb, y) >>),
    MapOf(<< [k |-> Str(Ka), v |-> x], [k |-> y, v |-> Num(1)] >>) }

CyclicHeaps ==
  { << root, rest[1], rest[2] >> :
      root \in Shapes(Ref(2), Ref(1)),
      rest \in { << Array(<< Ref(3), Ref(1) >>),
                    [Function(SrcFoo, 2) EXCEPT !.props = << Prop(Ka, Ref(2)) >>,
                                                !.proto = Undefined,
                                                !.constructor = Undefined] >>,
                 << SetOf(<< Ref(1), Ref(3) >>), MapOf(<< [k |-> Ref(2), v |-> Num(1)] >>) >>,
                 << Array(<< Ref(3), Ref(1) >>), WeakMap >> } }

InitRun ==
  /\ heapA \in CyclicHeaps
  /\ heapB = heapA
  /\ valA = Ref(1)
  /\ valB = Ref(1)
  /\ options \in Configurations
  /\ resA = NoResult
  /\ resB = NoResult
  /\ stack = << >>
  /\ hashers = << >>

\* The call runs on as long as it has something to do.
SpecRun == InitRun /\ [][NextRun]_vars /\ WF_vars(NextRun)

(***************************************************************************)
(* Relations between the two values                                        *)
(***************************************************************************)

\* Both calls have returned.
BothDone == resA.done /\ resB.done

\* The two calls returned the same thing: the same text, or the same error.
SameResult == resA.out = resB.out /\ resA.err = resB.err

\* t is s with its elements in another order.
IsPermutation(s, t) ==
  /\ Len(s) = Len(t)
  /\ \E p \in Permutations(DOMAIN s) : \A i \in DOMAIN s : t[i] = s[p[i]]

\* The collection is canonicalized order-independently under the options.
IsUnordered(o, raw) ==
  \/ o.cls = N_Array /\ applyDefaults(raw).unorderedArrays
  \/ o.cls \in {C_Set, C_Map} /\ applyDefaults(raw).unorderedSets

\* h2 is h1 with the elements of some of its unordered collections permuted.
PermutedInside(h1, h2, raw) ==
  /\ DOMAIN h1 = DOMAIN h2
  /\ \A i \in DOMAIN h1 :
       \/ h2[i] = h1[i]
       \/ /\ IsUnordered(h1[i], raw)
          /\ IsPermutation(h1[i].items, h2[i].items)
          /\ IsPermutation(h1[i].entries, h2[i].entries)
          /\ h2[i] = [h1[i] EXCEPT !.items = h2[i].items, !.entries = h2[i].entries]

\* The own property names of an object, as a set.
KeySet(o) == {o.props[i].k : i \in DOMAIN o.props}

\* Structural equality of two acyclic values: the same kind and content, and
\* for composites the same class, text, key set, length and, position by
\* position and key by key, structurally equal parts.  Identity plays no part.
RECURSIVE StructEq(_, _, _, _)
StructEq(h1, a, h2, b) ==
  IF a.t # "ref" \/ b.t # "ref" THEN a = b
  ELSE
    LET oa == h1[a.n]
        ob == h2[b.n]
    IN /\ oa.cls = ob.cls /\ oa.text = ob.text
       /\ oa.callable = ob.callable /\ oa.native = ob.native /\ oa.isBuffer = ob.isBuffer
       /\ KeySet(oa) = KeySet(ob)
       /\ \A k \in KeySet(oa) : StructEq(h1, Get(oa, k), h2, Get(ob, k))
       /\ Len(oa.items) = Len(ob.items)
       /\ \A i \in DOMAIN oa.items : StructEq(h1, oa.items[i], h2, ob.items[i])
       /\ Len(oa.entries) = Len(ob.entries)
       /\ \A i \in DOMAIN oa.entries :
            /\ StructEq(h1, oa.entries[i].k, h2, ob.entries[i].k)
            /\ StructEq(h1, oa.entries[i].v, h2, ob.entries[i].v)
       /\ StructEq(h1, oa.prototype, h2, ob.prototype)
       /\ StructEq(h1, oa.proto, h2, ob.proto)
       /\ StructEq(h1, oa.constructor, h2, ob.constructor)

\* The two values differ in type tag, in length, in key set or in element
\* content, within the given number of levels: a sufficient condition, which
\* follows references no deeper than that.
RECURSIVE Differ(_, _, _, _, _)
Differ(h1, a, h2, b, levels) ==
  IF levels = 0 THEN FALSE
  ELSE IF a.t # "ref" \/ b.t # "ref" THEN a # b
  ELSE
    LET oa == h1[a.n]
        ob == h2[b.n]
    IN \/ oa.cls # ob.cls
       \/ Len(oa.items) # Len(ob.items)
       \/ KeySet(oa) # KeySet(ob)
       \/ \E i \in DOMAIN oa.items \cap DOMAIN ob.items :
            Differ(h1, oa.items[i], h2, ob.items[i], levels - 1)
       \/ \E k \in KeySet(oa) \cap KeySet(ob) :
            Differ(h1, Get(oa, k), h2, Get(ob, k), levels - 1)

\* How deep Differ looks.
DifferLevels == 2

\* A composite whose class name matches no encoding rule.
IsUnrecognized(heap, v) ==
  /\ v.t = "ref"
  /\ ~heap[v.n].isBuffer
  /\ toLowerCase(heap[v.n].cls) \notin {N_object, N_function}
  /\ ~hasRule(toLowerCase(heap[v.n].cls))

(***************************************************************************)
(* Claims                                                                  *)
(***************************************************************************)

\* C1: permuting the elements of an array (with unorderedArrays=true) or of
\* a set or map (with unorderedSets=true, the default) anywhere inside a
\* value leaves the result of hashing it unchanged, whatever the elements
\* are and wherever else in the value they are referenced.
C1_UnorderedIsOrderIndependent ==
  (BothDone /\ valA = valB /\ PermutedInside(heapA, heapB, options)) => SameResult

\* C2: two acyclic values that are structurally equal produce the same
\* stream, whether a composite is referenced twice or two equal copies of it
\* are referenced once each.
C2_IdentityIndependent ==
  (BothDone /\ Acyclic(heapA, valA) /\ Acyclic(heapB, valB)
     /\ StructEq(heapA, valA, heapB, valB)) => SameResult

\* C3: with excludeValues=false, no replacer and ordered arrays, two values
\* that differ in type tag, length, key set or element content produce
\* different streams.
C3_EncodingIsCollisionFree ==
  (BothDone /\ resA.err = "none" /\ resB.err = "none"
     /\ ~applyDefaults(options).excludeValues /\ options.replacer = "undefined"
     /\ ~applyDefaults(options).unorderedArrays
     /\ Differ(heapA, valA, heapB, valB, DifferLevels)) => resA.out # resB.out

\* C8: every time dispatch is called with a composite whose class name
\* matches no encoding rule: with ignoreUnknown=false the call of the
\* exported function fails with the unknown-type error and returns nothing;
\* with ignoreUnknown=true that dispatch call writes exactly '[' + the
\* lower-cased class name + ']' and the exported call does not fail.
C8_UnrecognizedTypePolicy ==
  resA.done =>
    \A i \in DOMAIN resA.calls :
      IsUnrecognized(heapA, resA.calls[i].v) =>
        IF applyDefaults(options).ignoreUnknown
          THEN /\ resA.err = "none"
               /\ resA.calls[i].wrote =
                    T_open \o toLowerCase(heapA[resA.calls[i].v.n].cls) \o T_close
          ELSE resA.err = "Unknown object type" /\ resA.out = << >>

\* C9: when the root is an unordered array of two or more elements, every
\* composite pushed onto a Context Stack while its elements were serialized
\* is on the hasher's Context Stack once the array is finished.
C9_AdditionsAreMerged ==
  (resA.done /\ resA.err = "none" /\ valA.t = "ref"
     /\ IsUnordered(heapA[valA.n], options) /\ Len(heapA[valA.n].items) >= 2)
    => \A i \in DOMAIN resA.visited :
         \E j \in DOMAIN resA.context : resA.context[j] = resA.visited[i]

\* C10: the stream of a numeric array of each of the nine kinds is the
\* kind's own lower-cased class name and ':', followed by the stream of its
\* elements as an Array.
C10_NumericArrayPrefix ==
  (resA.done /\ valA.t = "ref" /\ heapA[valA.n].cls \in NumericClasses) =>
    resA.out = toLowerCase(heapA[valA.n].cls) \o T_colon
                 \o objectHash(heapA, Temp(N_Array, heapA[valA.n].items), options).out


(***************************************************************************)
(* Records: key order, constructors, excluded values (SpecRecords)         *)
(***************************************************************************)

\* The two records, and the options as the program reads them.
RecA == heapA[1]
RecB == heapA[2]
Opts == applyDefaults(options)

\* Both calls returned a text.
BothWrote == BothDone /\ resA.err = "none" /\ resB.err = "none"

\* The same own keys with the same value under each, from the same constructor.
SameProperties ==
  /\ KeySet(RecA) = KeySet(RecB)
  /\ \A k \in KeySet(RecA) : Get(RecA, k) = Get(RecB, k)
  /\ RecA.proto = RecB.proto
  /\ RecA.constructor = RecB.constructor

\* C5: two records with the same own keys and the same value under each key
\* yield the same result whatever the insertion order of the keys, under
\* every configuration, and the composites below them are entered in the
\* same order.
C5_KeyOrderIndependent ==
  (BothDone /\ SameProperties) =>
    /\ SameResult
    /\ Tail(resA.visited) = Tail(resB.visited)

\* Both orders of two keys that hold the same array were hashed: the array
\* is written in full under the first sorted key and as a marker under the
\* second, in both calls.
C5_Witness ==
  /\ BothWrote
  /\ SameProperties
  /\ keysOf(RecA) = << Ka, Kb >>
  /\ keysOf(RecB) = << Kb, Ka >>
  /\ Get(RecA, Ka) = Ref(3)
  /\ Get(RecA, Kb) = Ref(3)
  /\ heapA[3].cls = N_Array
  /\ resA.out = resB.out
  /\ Tail(resA.visited) = Tail(resB.visited)
  /\ 3 \in {resA.visited[i] : i \in DOMAIN resA.visited}

\* Identical own keys and values, made by two different constructor functions.
DifferentConstructors ==
  /\ RecA.props = RecB.props
  /\ RecA.constructor # RecB.constructor
  /\ heapA[RecA.constructor.n].callable
  /\ heapA[RecB.constructor.n].callable

ValuesDispatched(res, root) ==
  {i \in DOMAIN res.calls : res.calls[i].v # root /\ res.calls[i].v.t # "string"}

\* The keys under which the two records hold different values.
DifferingKeys == {k \in KeySet(RecA) : Get(RecA, k) # Get(RecB, k)}

\* The two records are alike but for one value, a primitive in both.
DifferInOnePrimitive ==
  /\ keysOf(RecA) = keysOf(RecB)
  /\ RecA.proto = RecB.proto
  /\ RecA.constructor = RecB.constructor
  /\ Cardinality(DifferingKeys) = 1
  /\ \A k \in DifferingKeys : Get(RecA, k).t # "ref" /\ Get(RecB, k).t # "ref"

\* C7: with excludeValues=true two records with the same keys are written
\* the same whatever their values, no value stored under a key is dispatched
\* and the call does not fail on a value of unrecognized type; with
\* excludeValues=false (and no replacer) two records that differ in one
\* primitive value are written differently.
C7_ValuesExcluded ==
  BothDone =>
    /\ (Opts.excludeValues /\ KeySet(RecA) = KeySet(RecB)) =>
         /\ BothWrote
         /\ resA.out = resB.out
         /\ ValuesDispatched(resA, valA) = {}
         /\ ValuesDispatched(resB, valB) = {}
    /\ (~Opts.excludeValues /\ Opts.replacer = "undefined" /\ DifferInOnePrimitive /\ BothWrote) =>
         resA.out # resB.out

\* With excludeValues=true and ignoreUnknown=false, a record that holds a
\* number and a record that holds a value of unrecognized type under the
\* same key were written, and the same.
C7_Witness ==
  /\ BothWrote
  /\ Opts.excludeValues
  /\ ~Opts.ignoreUnknown
  /\ keysOf(RecA) = << Ka >>
  /\ keysOf(RecB) = << Ka >>
  /\ Get(RecA, Ka).t = "number"
  /\ IsUnrecognized(heapA, Get(RecB, Ka))
  /\ resA.out = resB.out


(***************************************************************************)
(* Termination (SpecRun)                                                   *)
(***************************************************************************)

\* Some object reachable from the value hashed lies on a reference cycle.
Cyclic == ~Acyclic(heapA, valA)

\* The run, call by call, returns what objectHash returns.
RunAgrees ==
  resA.done =>
    LET r == objectHash(heapA, valA, options) IN
      /\ resA.err = r.err
      /\ resA.out = r.out
      /\ resA.err = "none" => resA.context = r.context /\ resA.visited = r.visited

\* C4: under every configuration, one top-level dispatch on a finite value
\* graph, cyclic or not, eventually finishes.
C4_Terminates == <>(resA.done)

\* A call on a value that lies on a cycle has returned a text in which a
\* circular marker stands for the value.
C4_Witness ==
  /\ resA.done
  /\ resA.err = "none"
  /\ Cyclic
  /\ 1 \in Reach(heapA, {1})
  /\ \E i \in 1..(Len(resA.out) - 9) : SubSeq(resA.out, i, i + 9) = T_CIRCULAR

====
